---- MODULE Spec2Model ----
(***************************************************************************)
(* Model of wellplate_analysis: the run_pipeline orchestrator and the data *)
(* transforms it calls (handle_ovrflw, index_to_time, rfu_to_mefl,         *)
(* rename_sample_columns, normalize_by_OD, average_replicates).            *)
(*                                                                         *)
(* Tables are pandas DataFrames: a sequence of column names, a row index   *)
(* and row-major cells.  Numbers are exact rationals (floating point       *)
(* rounding is not modelled).  Column names are sequences of characters so *)
(* that str.startswith is a prefix test.                                   *)
(***************************************************************************)
EXTENDS Integers, Sequences, FiniteSets, TLC

VARIABLES
    config,        \* the parsed YAML document (run_pipeline.py:19-20)
    workbook,      \* the .xlsx workbook: sheet name -> rows as read by openpyxl
    pc,            \* position of run_pipeline
    log,           \* stages finished so far, in order
    df_od600,      \* locals of run_pipeline
    df_sfGFP,
    df_MEFL,
    fit,           \* Slope, Intercept, R_squared
    df_norm_sfGFP,
    df_norm_MEFL,
    avg,           \* the five *_avg locals
    files,         \* files written to output_folder, in order
    plotIdx,       \* position of the loop over plot_configs
    error,         \* the exception that ended the run
    result,        \* the returned dict
    applied        \* results of direct handle_ovrflw calls, in order

vars == <<config, workbook, pc, log, df_od600, df_sfGFP, df_MEFL, fit,
          df_norm_sfGFP, df_norm_MEFL, avg, files, plotIdx, error, result, applied>>

----------------------------------------------------------------------------
(* Bounds of the model *)

MaxRows == 2        \* data rows per sheet
MaxSubstitute == 1  \* overflow substitutes range over 0..MaxSubstitute

----------------------------------------------------------------------------
(* Python / pandas values *)

RECURSIVE GCD(_, _)
GCD(a, b) == IF b = 0 THEN a ELSE GCD(b, a % b)

Abs(x) == IF x < 0 THEN -x ELSE x

\* a float, kept as a reduced fraction n/d with d > 0
Num(n, d) ==
    LET g == GCD(Abs(n), Abs(d))
        s == IF d < 0 THEN -1 ELSE 1
    IN  [k |-> "num", n |-> s * (n \div g), d |-> s * (d \div g)]

Number(n) == [k |-> "num", n |-> n, d |-> 1]

OVRFLW == [k |-> "str", s |-> "OVRFLW"]   \* the instrument's overflow sentinel
PdNA == [k |-> "NA"]                      \* pd.NA
NaN == [k |-> "nan"]                      \* float nan
PyNone == [k |-> "None"]                  \* None (an empty spreadsheet cell, an unset local)
PyFalse == [k |-> "False"]                \* False
PyStr(name) == [k |-> "name", name |-> name]        \* a str naming a column
PyList(items) == [k |-> "list", items |-> items]   \* a list
Unbound == [k |-> "unbound"]              \* a local that was never assigned
TimeOfDay(h, m, s) == [k |-> "time", h |-> h, m |-> m, s |-> s]   \* datetime.time

IsNum(c) == c.k = "num"
IsMissing(c) == c.k \in {"NA", "nan", "None"}    \* pandas isna()

\* float arithmetic: a missing operand gives a missing result
Arith(a, b, r) ==
    IF a.k = "NA" \/ b.k = "NA" THEN PdNA
    ELSE IF ~IsNum(a) \/ ~IsNum(b) THEN NaN
    ELSE r

Add(a, b) == Arith(a, b, Num(a.n * b.d + b.n * a.d, a.d * b.d))
Sub(a, b) == Arith(a, b, Num(a.n * b.d - b.n * a.d, a.d * b.d))
Mul(a, b) == Arith(a, b, Num(a.n * b.n, a.d * b.d))
\* x / 0 is inf or nan in numpy: both are kept as the undefined value NaN
Div(a, b) == Arith(a, b, IF b.n = 0 THEN NaN ELSE Num(a.n * b.d, a.d * b.n))

RECURSIVE SumSeq(_)
SumSeq(s) == IF s = <<>> THEN Number(0) ELSE Add(Head(s), SumSeq(Tail(s)))

\* Series.mean() / DataFrame.mean(): missing values are skipped, an empty mean is nan
Mean(s) ==
    LET kept == SelectSeq(s, LAMBDA c : ~IsMissing(c))
    IN  IF kept = <<>> THEN NaN ELSE Div(SumSeq(kept), Number(Len(kept)))

----------------------------------------------------------------------------
(* Column names *)

Name_Time == <<"T", "i", "m", "e">>
Name_Temp == <<"T", "e", "m", "p">>
A1 == <<"A", "1">>
A2 == <<"A", "2">>
A3 == <<"A", "3">>
B3 == <<"B", "3">>
Cond == <<"c">>            \* a condition name
CondX == <<"c", "x">>      \* a sample name that has Cond as a prefix
CondZ == <<"z">>           \* a condition that names no sample
Nope == <<"n", "o">>       \* a column no table has

\* str.startswith
StartsWith(name, prefix) ==
    /\ Len(prefix) <= Len(name)
    /\ SubSeq(name, 1, Len(prefix)) = prefix

\* sorted(): the names of the model in lexicographic order
NameOrder == <<A1, A2, A3, B3, Name_Temp, Name_Time, Cond, CondX, Nope, CondZ>>
Rank(name) == CHOOSE i \in 1..Len(NameOrder) : NameOrder[i] = name

ToSet(s) == {s[i] : i \in 1..Len(s)}
HasDuplicates(s) == Cardinality(ToSet(s)) # Len(s)

RECURSIVE SortNames(_)
SortNames(S) ==
    IF S = {} THEN <<>>
    ELSE LET m == CHOOSE x \in S : \A y \in S : Rank(x) <= Rank(y)
         IN  <<m>> \o SortNames(S \ {m})

----------------------------------------------------------------------------
(* Tables *)

Table(cols, index, rows) == [cols |-> cols, index |-> index, rows |-> rows]

NRows(t) == Len(t.rows)
NCols(t) == Len(t.cols)
Column(t, j) == [i \in 1..NRows(t) |-> t.rows[i][j]]
Positions(t, name) == SelectSeq([j \in 1..NCols(t) |-> j], LAMBDA j : t.cols[j] = name)

\* io.load_xlsx: the first row of the sheet is the header, the rest is the data
\* under a fresh 0..n-1 index
load_xlsx(wb, sheet_name) ==
    LET ws == wb[sheet_name]
        data == Tail(ws)
    IN  Table(Head(ws), [i \in 1..Len(data) |-> Number(i - 1)], data)

----------------------------------------------------------------------------
(* processing.handle_ovrflw *)

\* Python's `integer != False`: 0 == False, so a substitute of 0 compares equal
PyNeFalse(v) == ~(v = PyFalse \/ (IsNum(v) /\ v.n = 0))

\* the value an overflow cell is replaced with
Replacement(integer) == IF PyNeFalse(integer) THEN integer ELSE PdNA

\* the loops visit column after column and, inside a column, row after row
VisitedBefore(p, q) == p[1] < q[1] \/ (p[1] = q[1] /\ p[2] < q[2])

\* `df.iloc[i,j] == "OVRFLW"` is pd.NA for a pd.NA cell, and `if pd.NA` raises
\* TypeError; the cells visited before it have already been replaced in place
handle_ovrflw(df, integer) ==
    LET scanned == {p \in (3..NCols(df)) \X (1..NRows(df)) : TRUE}
        ambiguous == {p \in scanned : df.rows[p[2]][p[1]] = PdNA}
        stop == IF ambiguous = {} THEN <<NCols(df) + 1, 1>>
                ELSE CHOOSE p \in ambiguous : \A q \in ambiguous : p = q \/ VisitedBefore(p, q)
        cleaned == [i \in 1..NRows(df) |-> [j \in 1..NCols(df) |->
                      IF /\ j > 2
                         /\ VisitedBefore(<<j, i>>, stop)
                         /\ df.rows[i][j] = OVRFLW
                      THEN Replacement(integer)
                      ELSE df.rows[i][j]]]
    IN  [raised |-> IF ambiguous = {} THEN "none" ELSE "TypeError",
         df |-> Table(df.cols, df.index, cleaned)]

----------------------------------------------------------------------------
(* processing.index_to_time *)

\* timedelta(hours, minutes, seconds).total_seconds() / 3600
HoursElapsed(time) == Num(time.h * 3600 + time.m * 60 + time.s, 3600)

\* DataFrame.dropna(): rows holding a missing value are removed, labels kept
dropna(df) ==
    LET keep == SelectSeq([i \in 1..NRows(df) |-> i],
                          LAMBDA i : \A j \in 1..NCols(df) : ~IsMissing(df.rows[i][j]))
    IN  Table(df.cols,
              [r \in 1..Len(keep) |-> df.index[keep[r]]],
              [r \in 1..Len(keep) |-> df.rows[keep[r]]])

\* the variant without dropna(): rows holding a missing value stay in the table
index_to_time_keeping_gaps(df) ==
    LET t == CHOOSE j \in 1..NCols(df) : df.cols[j] = Name_Time
    IN  Table(df.cols, [i \in 1..NRows(df) |-> HoursElapsed(df.rows[i][t])], df.rows)

\* the new "hours elapsed" column becomes the index; the "Time" column stays
index_to_time(df) ==
    LET d == dropna(df)
        t == CHOOSE j \in 1..NCols(d) : d.cols[j] = Name_Time
    IN  Table(d.cols, [i \in 1..NRows(d) |-> HoursElapsed(d.rows[i][t])], d.rows)

----------------------------------------------------------------------------
(* calibration.rfu_to_mefl *)

\* scipy.stats.linregress(x, y): the set of outcomes the installed scipy can give.
\* One point gives slope = 0/0 = nan without any error.  Identical x values of two
\* or more points raise ValueError in current scipy and give a nan fit in old ones.
linregress(x, y) ==
    LET xmean == Mean(x)
        ymean == Mean(y)
        ssxm == Mean([i \in 1..Len(x) |-> Mul(Sub(x[i], xmean), Sub(x[i], xmean))])
        ssym == Mean([i \in 1..Len(x) |-> Mul(Sub(y[i], ymean), Sub(y[i], ymean))])
        ssxym == Mean([i \in 1..Len(x) |-> Mul(Sub(x[i], xmean), Sub(y[i], ymean))])
        zero == Number(0)
        slope == Div(ssxym, ssxm)
        r2 == IF ssxm = zero \/ ssym = zero THEN zero
              ELSE Div(Mul(ssxym, ssxym), Mul(ssxm, ssym))
        fitted == [raised |-> "none", slope |-> slope,
                   intercept |-> Sub(ymean, Mul(slope, xmean)), r_squared |-> r2]
        refused == [raised |-> "ValueError", slope |-> NaN, intercept |-> NaN,
                    r_squared |-> NaN]
    IN  IF Len(x) = 0 \/ Len(x) # Len(y) THEN {refused}
        ELSE IF Len(x) > 1 /\ \A i \in 1..Len(x) : x[i] = x[1] THEN {refused, fitted}
        ELSE {fitted}

StartsWithRowLetter(col) ==
    \E letter \in {"A", "B", "C", "D", "E", "F", "G", "H"} : StartsWith(col, <<letter>>)

\* df_MEFL = df.copy() with every well column replaced by value * slope + intercept
ApplyFit(df, slope, intercept) ==
    Table(df.cols, df.index,
          [i \in 1..NRows(df) |-> [j \in 1..NCols(df) |->
              IF StartsWithRowLetter(df.cols[j])
              THEN Add(Mul(df.rows[i][j], slope), intercept)
              ELSE df.rows[i][j]]])

\* fluor_conc_uM * well_volume * avogadro, counted in units of 6.022e17 molecules
\* (well_volume_uL * 1e-6 * 6.022e23) so that the numbers stay small
FluorMolecules(fluor_conc_uM, well_volume_uL) ==
    [i \in 1..Len(fluor_conc_uM) |-> Mul(fluor_conc_uM[i], well_volume_uL)]

ColumnMean(df, name) == Mean(Column(df, Positions(df, name)[1]))

\* the no-copy variant: the fitted values are written into the caller's table
rfu_to_mefl_in_place(df, fluor_conc_uM, well_volume_uL, fluorescein_wells, background_well) ==
    LET used == ToSet(fluorescein_wells)
                  \cup (IF background_well # PyFalse THEN {background_well.name} ELSE {})
        raw == [w \in 1..Len(fluorescein_wells) |-> ColumnMean(df, fluorescein_wells[w])]
        rfus == IF background_well # PyFalse
                THEN [w \in 1..Len(raw) |-> Sub(raw[w], ColumnMean(df, background_well.name))]
                ELSE raw
        mols == FluorMolecules(fluor_conc_uM, well_volume_uL)
    IN  IF ~(used \subseteq ToSet(df.cols))
        THEN {[raised |-> "KeyError", df |-> df, df_MEFL |-> PyNone, rfus |-> <<>>,
               fluor_molecules |-> mols, slope |-> NaN, intercept |-> NaN,
               r_squared |-> NaN]}
        ELSE {[raised |-> LR.raised,
               df |-> IF LR.raised = "none" THEN ApplyFit(df, LR.slope, LR.intercept) ELSE df,
               df_MEFL |-> IF LR.raised = "none" THEN ApplyFit(df, LR.slope, LR.intercept)
                           ELSE PyNone,
               rfus |-> rfus, fluor_molecules |-> mols, slope |-> LR.slope,
               intercept |-> LR.intercept, r_squared |-> LR.r_squared]
              : LR \in linregress(rfus, mols)}

\* the set of outcomes of one call; `df` is the caller's table after the call
rfu_to_mefl(df, fluor_conc_uM, well_volume_uL, fluorescein_wells, background_well) ==
    LET used == ToSet(fluorescein_wells)
                  \cup (IF background_well # PyFalse THEN {background_well.name} ELSE {})
        raw == [w \in 1..Len(fluorescein_wells) |-> ColumnMean(df, fluorescein_wells[w])]
        rfus == IF background_well # PyFalse
                THEN [w \in 1..Len(raw) |-> Sub(raw[w], ColumnMean(df, background_well.name))]
                ELSE raw
        mols == FluorMolecules(fluor_conc_uM, well_volume_uL)
    IN  IF ~(used \subseteq ToSet(df.cols))
        THEN {[raised |-> "KeyError", df |-> df, df_MEFL |-> PyNone, rfus |-> <<>>,
               fluor_molecules |-> mols, slope |-> NaN, intercept |-> NaN,
               r_squared |-> NaN]}
        ELSE {[raised |-> LR.raised, df |-> df,
               df_MEFL |-> IF LR.raised = "none" THEN ApplyFit(df, LR.slope, LR.intercept)
                           ELSE PyNone,
               rfus |-> rfus, fluor_molecules |-> mols, slope |-> LR.slope,
               intercept |-> LR.intercept, r_squared |-> LR.r_squared]
              : LR \in linregress(rfus, mols)}

----------------------------------------------------------------------------
(* processing.rename_sample_columns, normalize_by_OD, average_replicates *)

\* DataFrame.rename(columns=rename_map): unmapped columns keep their name
rename_sample_columns(df, rename_map) ==
    Table([j \in 1..NCols(df) |->
               IF df.cols[j] \in DOMAIN rename_map THEN rename_map[df.cols[j]]
               ELSE df.cols[j]],
          df.index, df.rows)

\* DataFrame.iloc[:, 2:]
DataRegion(df) ==
    Table(SubSeq(df.cols, 3, NCols(df)), df.index,
          [i \in 1..NRows(df) |-> SubSeq(df.rows[i], 3, NCols(df))])

\* df_fl.iloc[:,2:] / df_od.iloc[:,2:].  pandas aligns the operands on their
\* column labels: equal label sequences divide position by position, different
\* ones give the sorted union of the labels, with nan in every column that only
\* one operand has; labels that differ and repeat cannot be reindexed.
\* Both operands carry the same row index (run_pipeline.py:49).
normalize_by_OD(df_od, df_fl) ==
    LET fl == DataRegion(df_fl)
        od == DataRegion(df_od)
        union == SortNames(ToSet(fl.cols) \cup ToSet(od.cols))
        Cell(t, i, name) == IF name \in ToSet(t.cols)
                            THEN t.rows[i][Positions(t, name)[1]] ELSE NaN
    IN  IF fl.cols = od.cols
        THEN [raised |-> "none",
              df |-> Table(fl.cols, fl.index,
                           [i \in 1..NRows(fl) |-> [j \in 1..NCols(fl) |->
                               Div(fl.rows[i][j], od.rows[i][j])]])]
        ELSE IF HasDuplicates(fl.cols) \/ HasDuplicates(od.cols)
        THEN [raised |-> "ValueError", df |-> PyNone]
        ELSE [raised |-> "none",
              df |-> Table(union, fl.index,
                           [i \in 1..NRows(fl) |-> [j \in 1..Len(union) |->
                               Div(Cell(fl, i, union[j]), Cell(od, i, union[j]))]])]

RECURSIVE Flatten(_)
Flatten(ss) == IF ss = <<>> THEN <<>> ELSE Head(ss) \o Flatten(Tail(ss))

\* df[replicate_cols]: every requested label selects every column carrying it, so a
\* label listed n times and carried by n columns contributes n * n columns
SelectColumns(df, labels) == Flatten([l \in 1..Len(labels) |-> Positions(df, labels[l])])

\* `conditions` is the iteration order of set(conditions)
average_replicates(df, conditions) ==
    LET replicate_cols(cond) == SelectSeq(df.cols, LAMBDA col : StartsWith(col, cond))
        kept == SelectSeq(conditions, LAMBDA cond : replicate_cols(cond) # <<>>)
        picked(cond) == SelectColumns(df, replicate_cols(cond))
    IN  Table(kept, df.index,
              [i \in 1..NRows(df) |-> [c \in 1..Len(kept) |->
                  Mean([p \in 1..Len(picked(kept[c])) |->
                           df.rows[i][picked(kept[c])[p]]])]])

----------------------------------------------------------------------------
(* Inputs: workbooks and configuration documents *)

\* the reading cycle is 30 minutes; `late` shifts a reading by 15 seconds
TimeAt(i, late) == TimeOfDay((i - 1) \div 2, 30 * ((i - 1) % 2), IF late THEN 15 ELSE 0)

Header(third) == <<Name_Time, Name_Temp, A1, A2, third>>

\* optical density sheet; `gap` leaves the last cell of the last row empty
ODSheet(gap) ==
    <<Header(A3)>> \o
    [i \in 1..MaxRows |->
        <<TimeAt(i, FALSE), Number(30), Number(2), Number(2),
          IF gap /\ i = MaxRows THEN PyNone ELSE Number(2)>>]

\* fluorescence sheet: `n` rows, the last reading possibly `late`, the third well
\* named `third`, possibly an overflow reading, signals rising or all alike
FLSheet(n, late, third, ovr, flat) ==
    <<Header(third)>> \o
    [i \in 1..n |->
        <<TimeAt(i, late /\ i = n), Number(30),
          IF flat THEN Number(1) ELSE Number(i),
          IF ovr /\ i = 1 THEN OVRFLW ELSE IF flat THEN Number(1) ELSE Number(2 * i),
          IF flat THEN Number(1) ELSE Number(3 * i)>>]

Book(od, fl) == [OD |-> od, FL |-> fl]

BaseFL == FLSheet(MaxRows, FALSE, A3, FALSE, FALSE)

Workbooks ==
    {Book(ODSheet(FALSE), BaseFL),
     Book(ODSheet(TRUE), BaseFL),
     Book(ODSheet(FALSE), FLSheet(MaxRows - 1, FALSE, A3, FALSE, FALSE)),
     Book(ODSheet(FALSE), FLSheet(MaxRows, TRUE, A3, FALSE, FALSE)),
     Book(ODSheet(FALSE), FLSheet(MaxRows, FALSE, B3, FALSE, FALSE)),
     Book(ODSheet(FALSE), FLSheet(MaxRows, FALSE, A3, TRUE, FALSE)),
     Book(ODSheet(FALSE), FLSheet(MaxRows, FALSE, A3, FALSE, TRUE))}

required_sections == <<"file_path", "sheets", "rename_map", "plotting">>

Calibration(wells, conc, background) ==
    [fluorescein_calibration_wells |-> wells,
     fluorescein_micromolar_concentration |-> conc,
     microliters_in_wells |-> Number(1),
     background_well |-> background,
     calibration_plot |-> "calibration.png"]

Calibrations ==
    {PyNone,
     Calibration(<<A1>>, <<Number(1)>>, PyFalse),
     Calibration(<<A1, A2>>, <<Number(1), Number(2)>>, PyFalse),
     Calibration(<<A1, A2>>, <<Number(1), Number(2)>>, PyStr(A3))}

Substitutes == {PyFalse} \cup {Number(v) : v \in 0..MaxSubstitute}

NoRename == [n \in {} |-> n]
Replicates == [n \in {A1, A2, A3} |-> IF n = A3 THEN CondX ELSE Cond]

PlotSources ==
    {"normalized MEFL average", "normalized MEFL replicates", "MEFL average",
     "MEFL replicates", "normalized RFU average", "normalized RFU replicates",
     "RFU average", "RFU replicates", "OD average", "OD replicates"}

\* `keys` are the keys the plot specification has
PlotCfg(source, columns, named) ==
    [source |-> source, columns |-> columns, filename |-> "plot.png",
     keys |-> {"source", "columns", "title", "units", "filename"}
                \cup (IF named THEN {"name"} ELSE {})]

PlotLists ==
    {<<>>} \cup
    {<<PlotCfg(source, columns, named)>> :
        source \in {"OD replicates", "MEFL replicates", "RFU average"},
        columns \in {<<A1>>, <<Cond>>},
        named \in BOOLEAN}

Config(sections, replacement, calibration, rename_map, conditions, plots) ==
    [sections |-> sections,
     sheets |-> [od600 |-> "OD", fluorescence |-> "FL"],
     replacement |-> replacement,
     calibration |-> calibration,
     rename_map |-> rename_map,
     conditions |-> conditions,
     plots |-> plots]

Configs ==
    {Config(ToSet(required_sections), replacement, calibration, rename_map, conditions, plots) :
        replacement \in Substitutes,
        calibration \in Calibrations,
        rename_map \in {NoRename, Replicates},
        conditions \in {PyFalse, PyList(<<Cond, CondZ>>)},
        plots \in PlotLists}
    \cup
    {Config(ToSet(required_sections) \ {missing}, PyFalse, PyNone, NoRename, PyFalse, <<>>) :
        missing \in ToSet(required_sections)}

----------------------------------------------------------------------------
(* run_pipeline *)

NoError == [type |-> "none", line |-> 0, source |-> "", columns |-> <<>>, key |-> ""]
Raised(type, line) == [type |-> type, line |-> line, source |-> "", columns |-> <<>>, key |-> ""]

NoAverages == [od600 |-> PyNone, sfGFP |-> PyNone, norm_sfGFP |-> PyNone,
               MEFL |-> PyNone, norm_MEFL |-> PyNone]
NoFit == [slope |-> PyNone, intercept |-> PyNone, r_squared |-> PyNone]

\* the iteration orders of set(conditions)
SetOrders(S) == {o \in [1..Cardinality(S) -> S] : ToSet(o) = S}

Init ==
    /\ config \in Configs
    /\ workbook \in Workbooks
    /\ pc = "start"
    /\ log = <<>>
    /\ df_od600 = Unbound
    /\ df_sfGFP = Unbound
    /\ df_MEFL = Unbound
    /\ fit = Unbound
    /\ df_norm_sfGFP = Unbound
    /\ df_norm_MEFL = Unbound
    /\ avg = Unbound
    /\ files = <<>>
    /\ plotIdx = 0
    /\ error = NoError
    /\ result = Unbound
    /\ applied = <<>>

Fail(e) == pc' = "failed" /\ error' = e
Finish(stage, next) == pc' = next /\ log' = Append(log, stage) /\ error' = error

\* run_pipeline.py:19-30
CheckConfig ==
    /\ pc = "start"
    /\ LET missing == SelectSeq(required_sections, LAMBDA sec : sec \notin config.sections)
       IN  IF missing # <<>>
           THEN Fail([Raised("KeyError", 25) EXCEPT !.key = Head(missing)])
           ELSE pc' = "load" /\ error' = error
    /\ UNCHANGED <<config, workbook, log, df_od600, df_sfGFP, df_MEFL, fit, df_norm_sfGFP,
                   df_norm_MEFL, avg, files, plotIdx, result, applied>>

\* run_pipeline.py:33-34
Load ==
    /\ pc = "load"
    /\ df_od600' = load_xlsx(workbook, config.sheets.od600)
    /\ df_sfGFP' = load_xlsx(workbook, config.sheets.fluorescence)
    /\ Finish("load", "validate")
    /\ UNCHANGED <<config, workbook, df_MEFL, fit, df_norm_sfGFP, df_norm_MEFL, avg, files,
                   plotIdx, result, applied>>

\* run_pipeline.py:36-39
ValidateAlignment ==
    /\ pc = "validate"
    /\ IF df_od600.index # df_sfGFP.index
       THEN Fail(Raised("ValueError", 37)) /\ log' = log
       ELSE Finish("validate-alignment", "clean")
    /\ UNCHANGED <<config, workbook, df_od600, df_sfGFP, df_MEFL, fit, df_norm_sfGFP,
                   df_norm_MEFL, avg, files, plotIdx, result, applied>>

\* run_pipeline.py:42-45
CleanOverflow ==
    /\ pc = "clean"
    /\ LET r == handle_ovrflw(df_sfGFP, config.replacement)
       IN  /\ df_sfGFP' = r.df
           /\ IF r.raised # "none"
              THEN Fail(Raised(r.raised, 43)) /\ log' = log
              ELSE Finish("clean-overflow", "index")
    /\ UNCHANGED <<config, workbook, df_od600, df_MEFL, fit, df_norm_sfGFP, df_norm_MEFL,
                   avg, files, plotIdx, result, applied>>

\* run_pipeline.py:48-51; assigning an index of another length raises ValueError
IndexTime ==
    /\ pc = "index"
    /\ LET od == index_to_time(df_od600)
       IN  /\ df_od600' = od
           /\ IF Len(od.index) # NRows(df_sfGFP)
              THEN Fail(Raised("ValueError", 49)) /\ log' = log /\ df_sfGFP' = df_sfGFP
              ELSE /\ df_sfGFP' = [df_sfGFP EXCEPT !.index = od.index]
                   /\ Finish("index-time", "calibrate")
    /\ UNCHANGED <<config, workbook, df_MEFL, fit, df_norm_sfGFP, df_norm_MEFL, avg, files,
                   plotIdx, result, applied>>

\* the variant that leaves the calibration outputs to a later export step
CalibrationOutputsDeferred(cfg) == <<>>

\* run_pipeline.py:65-70: the files the calibrate branch writes
CalibrationOutputs(cfg) == <<"MEFL.csv", cfg.calibration_plot>>

\* run_pipeline.py:54-77
Calibrate ==
    /\ pc = "calibrate"
    /\ LET cfg == config.calibration
       IN  IF cfg # PyNone
           THEN \E o \in rfu_to_mefl(df_sfGFP, cfg.fluorescein_micromolar_concentration,
                                     cfg.microliters_in_wells,
                                     cfg.fluorescein_calibration_wells, cfg.background_well) :
                  /\ df_sfGFP' = o.df
                  /\ IF o.raised # "none"
                     THEN /\ Fail(Raised(o.raised, 62))
                          /\ UNCHANGED <<log, df_MEFL, fit, files>>
                     ELSE /\ df_MEFL' = o.df_MEFL
                          /\ fit' = [slope |-> o.slope, intercept |-> o.intercept,
                                     r_squared |-> o.r_squared]
                          /\ files' = files \o CalibrationOutputs(cfg)
                          /\ Finish("calibrate", "rename")
           ELSE /\ df_MEFL' = PyNone
                /\ fit' = NoFit
                /\ pc' = "rename"
                /\ UNCHANGED <<log, df_sfGFP, files, error>>
    /\ UNCHANGED <<config, workbook, df_od600, df_norm_sfGFP, df_norm_MEFL, avg, plotIdx,
                   result, applied>>

\* run_pipeline.py:80-86
Rename ==
    /\ pc = "rename"
    /\ df_od600' = rename_sample_columns(df_od600, config.rename_map)
    /\ df_sfGFP' = rename_sample_columns(df_sfGFP, config.rename_map)
    /\ df_MEFL' = IF df_MEFL # PyNone
                  THEN rename_sample_columns(df_MEFL, config.rename_map) ELSE df_MEFL
    /\ Finish("rename", "normalize")
    /\ UNCHANGED <<config, workbook, fit, df_norm_sfGFP, df_norm_MEFL, avg, files, plotIdx,
                   result, applied>>

\* run_pipeline.py:89-98; df_norm_MEFL is assigned only under `df_MEFL is not None`
Normalize ==
    /\ pc = "normalize"
    /\ LET rfu == normalize_by_OD(df_od600, df_sfGFP)
           mefl == normalize_by_OD(df_od600, df_MEFL)
       IN  IF rfu.raised # "none"
           THEN /\ Fail(Raised(rfu.raised, 89))
                /\ UNCHANGED <<log, df_norm_sfGFP, df_norm_MEFL, files>>
           ELSE /\ df_norm_sfGFP' = rfu.df
                /\ IF df_MEFL = PyNone
                   THEN /\ Finish("normalize", "average")
                        /\ UNCHANGED <<df_norm_MEFL, files>>
                   ELSE IF mefl.raised # "none"
                   THEN /\ Fail(Raised(mefl.raised, 93))
                        /\ UNCHANGED <<log, df_norm_MEFL, files>>
                   ELSE /\ df_norm_MEFL' = mefl.df
                        /\ files' = Append(files, "normalized_MEFL_replicates.csv")
                        /\ Finish("normalize", "average")
    /\ UNCHANGED <<config, workbook, df_od600, df_sfGFP, df_MEFL, fit, avg, plotIdx, result,
                   applied>>

\* run_pipeline.py:101-132; line 127 reads df_norm_MEFL, which is unbound when no
\* calibration was configured
Average ==
    /\ pc = "average"
    /\ IF config.conditions # PyFalse /\ config.conditions.items # <<>>
       THEN \E conditions \in SetOrders(ToSet(config.conditions.items)) :
              LET first == [NoAverages EXCEPT
                               !.od600 = average_replicates(df_od600, conditions),
                               !.sfGFP = average_replicates(df_sfGFP, conditions),
                               !.norm_sfGFP = average_replicates(df_norm_sfGFP, conditions)]
                  second == IF df_MEFL # PyNone
                            THEN [first EXCEPT !.MEFL = average_replicates(df_MEFL, conditions)]
                            ELSE first
                  written == <<"OD_replicate_averages.csv", "RFU_replicate_averages.csv",
                               "normalized_RFU_replicate_averages.csv">>
                             \o (IF df_MEFL # PyNone THEN <<"MEFL_replicate_averages.csv">>
                                 ELSE <<>>)
              IN  IF df_norm_MEFL = Unbound
                  THEN /\ avg' = second
                       /\ files' = files \o written
                       /\ Fail(Raised("UnboundLocalError", 127))
                       /\ log' = log
                  ELSE IF df_norm_MEFL # PyNone
                  THEN /\ avg' = [second EXCEPT
                                     !.norm_MEFL = average_replicates(df_norm_MEFL, conditions)]
                       /\ files' = files \o written
                                     \o <<"normalized_MEFL_replicate_averages.csv">>
                       /\ Finish("average", "plot")
                  ELSE /\ avg' = second
                       /\ files' = files \o written
                       /\ Finish("average", "plot")
       ELSE /\ avg' = NoAverages
            /\ pc' = "plot"
            /\ UNCHANGED <<log, files, error>>
    /\ UNCHANGED <<config, workbook, df_od600, df_sfGFP, df_MEFL, fit, df_norm_sfGFP,
                   df_norm_MEFL, plotIdx, result, applied>>

\* run_pipeline.py:135-146
df_map ==
    [source \in PlotSources |->
        CASE source = "normalized MEFL average" -> avg.norm_MEFL
          [] source = "normalized MEFL replicates" -> df_norm_MEFL
          [] source = "MEFL average" -> avg.MEFL
          [] source = "MEFL replicates" -> df_MEFL
          [] source = "normalized RFU average" -> avg.norm_sfGFP
          [] source = "normalized RFU replicates" -> df_norm_sfGFP
          [] source = "RFU average" -> avg.sfGFP
          [] source = "RFU replicates" -> df_sfGFP
          [] source = "OD average" -> avg.od600
          [] source = "OD replicates" -> df_od600]

\* run_pipeline.py:135-148; building df_map reads df_norm_MEFL (line 137)
BuildPlotMap ==
    /\ pc = "plot"
    /\ IF df_norm_MEFL = Unbound
       THEN Fail(Raised("UnboundLocalError", 137)) /\ plotIdx' = plotIdx
       ELSE pc' = "plotting" /\ plotIdx' = 1 /\ error' = error
    /\ UNCHANGED <<config, workbook, log, df_od600, df_sfGFP, df_MEFL, fit, df_norm_sfGFP,
                   df_norm_MEFL, avg, files, result, applied>>

\* run_pipeline.py:150-172, one iteration; plotting.plot_columns saves the image
Plot ==
    /\ pc = "plotting"
    /\ plotIdx <= Len(config.plots)
    /\ LET plot_cfg == config.plots[plotIdx]
           source == plot_cfg.source
           df_to_plot == IF source \in PlotSources THEN df_map[source] ELSE PyNone
           columns == plot_cfg.columns
           missing == SelectSeq(columns, LAMBDA c : c \notin ToSet(df_to_plot.cols))
       IN  IF df_to_plot = PyNone
           THEN /\ Fail([Raised("ValueError", 154) EXCEPT !.source = source])
                /\ UNCHANGED <<files, plotIdx>>
           ELSE IF missing # <<>>
           THEN /\ IF "name" \in plot_cfg.keys
                   THEN Fail([Raised("ValueError", 159) EXCEPT !.columns = missing])
                   ELSE Fail([Raised("KeyError", 160) EXCEPT !.key = "name"])
                /\ UNCHANGED <<files, plotIdx>>
           ELSE /\ files' = Append(files, plot_cfg.filename)
                /\ plotIdx' = plotIdx + 1
                /\ UNCHANGED <<pc, error>>
    /\ UNCHANGED <<config, workbook, log, df_od600, df_sfGFP, df_MEFL, fit, df_norm_sfGFP,
                   df_norm_MEFL, avg, result, applied>>

\* run_pipeline.py:174-185
Return ==
    /\ pc = "plotting"
    /\ plotIdx > Len(config.plots)
    /\ result' = [normalized_MEFL_replicates |-> df_norm_MEFL,
                  normalized_MEFL_average |-> avg.norm_MEFL,
                  calibration |-> fit]
    /\ Finish("plot", "completed")
    /\ UNCHANGED <<config, workbook, df_od600, df_sfGFP, df_MEFL, fit, df_norm_sfGFP,
                   df_norm_MEFL, avg, files, plotIdx, applied>>

Next ==
    \/ CheckConfig
    \/ Load
    \/ ValidateAlignment
    \/ CleanOverflow
    \/ IndexTime
    \/ Calibrate
    \/ Rename
    \/ Normalize
    \/ Average
    \/ BuildPlotMap
    \/ Plot
    \/ Return

Spec == Init /\ [][Next]_vars

----------------------------------------------------------------------------
(* Direct calls of handle_ovrflw: the table is cleaned in place, call after call *)

MaxCalls == 2

\* sheets whose well cells are readings or overflow sentinels; the second
\* metadata column may hold the sentinel text too
UnitSheets ==
    {<<<<Name_Time, Name_Temp, A1, A2>>>> \o
       [i \in 1..MaxRows |-> <<TimeAt(i, FALSE), IF i = 1 THEN meta ELSE Number(30),
                               wells[i][1], wells[i][2]>>] :
        meta \in {Number(30), OVRFLW},
        wells \in [1..MaxRows -> [1..2 -> {Number(1), OVRFLW}]]}

UnitInit ==
    /\ config \in {Config(ToSet(required_sections), replacement, PyNone, NoRename, PyFalse, <<>>) :
                      replacement \in Substitutes}
    /\ workbook \in {Book(ODSheet(FALSE), fl) : fl \in UnitSheets}
    /\ pc = "unit"
    /\ log = <<>>
    /\ df_od600 = Unbound
    /\ df_sfGFP = load_xlsx(workbook, "FL")
    /\ df_MEFL = Unbound
    /\ fit = Unbound
    /\ df_norm_sfGFP = Unbound
    /\ df_norm_MEFL = Unbound
    /\ avg = Unbound
    /\ files = <<>>
    /\ plotIdx = 0
    /\ error = NoError
    /\ result = Unbound
    /\ applied = <<>>

\* df = handle_ovrflw(df, integer=replacement), unless the previous call raised
ApplyClean ==
    /\ pc = "unit"
    /\ Len(applied) < MaxCalls
    /\ error = NoError
    /\ LET r == handle_ovrflw(df_sfGFP, config.replacement)
       IN  /\ df_sfGFP' = r.df
           /\ applied' = Append(applied, r)
           /\ error' = IF r.raised = "none" THEN error ELSE Raised(r.raised, 23)
    /\ UNCHANGED <<config, workbook, pc, log, df_od600, df_MEFL, fit, df_norm_sfGFP,
                   df_norm_MEFL, avg, files, plotIdx, result>>

UnitNext == ApplyClean

UnitSpec == UnitInit /\ [][UnitNext]_vars

----------------------------------------------------------------------------
(* Properties *)

Done(stage) == stage \in ToSet(log)
Written(file) == file \in ToSet(files)
HasConditions == config.conditions # PyFalse /\ config.conditions.items # <<>>
HasCalibration == config.calibration # PyNone

AverageFiles ==
    {"OD_replicate_averages.csv", "RFU_replicate_averages.csv",
     "normalized_RFU_replicate_averages.csv", "MEFL_replicate_averages.csv",
     "normalized_MEFL_replicate_averages.csv"}

DataFiles == AverageFiles \cup {"MEFL.csv", "normalized_MEFL_replicates.csv", "calibration.png"}

\* the stages this configuration runs, in the documented order
StagesOf(cfg) ==
    SelectSeq(<<"load", "validate-alignment", "clean-overflow", "index-time", "calibrate",
                "rename", "normalize", "average", "plot">>,
              LAMBDA st : /\ (st = "calibrate" => cfg.calibration # PyNone)
                          /\ (st = "average" =>
                                 cfg.conditions # PyFalse /\ cfg.conditions.items # <<>>))

C1_StageOrder == Len(log) <= Len(StagesOf(config)) /\ log = SubSeq(StagesOf(config), 1, Len(log))

\* C1 as stated: the stages run in the documented order and no data file or
\* calibration image exists before rename, normalize and (when configured)
\* average have finished.
C1_OutputsAfterAverage ==
    /\ C1_StageOrder
    /\ (\E f \in DataFiles : Written(f)) =>
          /\ Done("rename")
          /\ Done("normalize")
          /\ (HasConditions => Done("average"))

\* C1 amended: the stages run in the documented order, the alignment check directly
\* after loading, and there is no export stage: every file is written by the stage
\* that computes its table (MEFL.csv and the calibration image by calibrate, before
\* rename; normalized_MEFL_replicates.csv by normalize, before average; the
\* *_replicate_averages.csv files by average; the plot images by plot).
C1_OutputsWithinStages ==
    /\ C1_StageOrder
    /\ (Len(log) >= 2 => log[2] = "validate-alignment")
    /\ (Written("MEFL.csv") <=> Done("calibrate"))
    /\ (Written("calibration.png") <=> Done("calibrate"))
    /\ (Written("normalized_MEFL_replicates.csv") <=> (Done("normalize") /\ HasCalibration))
    /\ (\E f \in AverageFiles : Written(f)) => (Done("normalize") /\ pc \in {"plot", "plotting", "completed", "failed"})
    /\ Done("average") => \A f \in AverageFiles : Written(f)
    /\ Written("plot.png") => (pc \in {"plotting", "completed"} /\ Done("normalize"))

C1_Witness ==
    /\ pc = "completed"
    /\ Done("calibrate")
    /\ Done("average")
    /\ Written("plot.png")
    /\ files[1] = "MEFL.csv"

\* C2: a run whose configuration has no calibration section never ends in the
\* failure of an unassigned calibration result; it completes with null results.
C2_NoCalibrationCompletes ==
    (config.sections = ToSet(required_sections) /\ ~HasCalibration) =>
        /\ ~(pc = "failed" /\ error.type = "UnboundLocalError")
        /\ (pc = "completed" =>
               /\ result.normalized_MEFL_replicates = PyNone
               /\ result.normalized_MEFL_average = PyNone
               /\ result.calibration = NoFit)

\* the elapsed hours a sheet's own time column gives once rows with missing
\* values are dropped
OwnHours(sheet_name) == index_to_time(load_xlsx(workbook, sheet_name)).index

\* C3: when the two loaded tables' own elapsed-hours indices differ, the run fails
\* with an alignment error and never reaches calibration or normalization.
C3_MisalignedFails ==
    (Done("load") /\ OwnHours("OD") # OwnHours("FL")) =>
        /\ pc \notin {"calibrate", "rename", "normalize", "average", "plot", "plotting",
                      "completed"}
        /\ (pc = "failed" => error.type = "ValueError" /\ error.line \in {37, 49})

\* C4: a plot specification with an unavailable source or an absent column ends
\* the run with a ValueError that names that source or those columns, and its
\* image is not written.
C4_PlotErrorNamesOffender ==
    (pc = "failed" /\ plotIdx >= 1) =>
        LET plot_cfg == config.plots[plotIdx]
        IN  /\ error.type = "ValueError"
            /\ \/ error.source = plot_cfg.source
               \/ /\ error.columns # <<>>
                  /\ ToSet(error.columns) \subseteq ToSet(plot_cfg.columns)
            /\ Len(SelectSeq(files, LAMBDA f : f = plot_cfg.filename)) = plotIdx - 1

\* the fluorescence table as loaded
LoadedFL == load_xlsx(workbook, config.sheets.fluorescence)

\* C5: after cleaning, every sentinel cell outside the first two columns holds the
\* substitute when one is configured (0 included) and the missing marker
\* otherwise; every other cell is unchanged and the shape is kept.
C5_SentinelsReplaced ==
    Done("clean-overflow") =>
        /\ df_sfGFP.cols = LoadedFL.cols
        /\ NRows(df_sfGFP) = NRows(LoadedFL)
        /\ \A i \in 1..NRows(LoadedFL) : \A j \in 1..NCols(LoadedFL) :
              df_sfGFP.rows[i][j] =
                  IF j > 2 /\ LoadedFL.rows[i][j] = OVRFLW
                  THEN (IF config.replacement # PyFalse THEN config.replacement ELSE PdNA)
                  ELSE LoadedFL.rows[i][j]

\* C6: cleaning twice gives what cleaning once gives, and a table without
\* sentinel cells comes back unchanged.
C6_CleanIdempotent ==
    /\ Len(applied) >= 1 =>
          ((\A i \in 1..NRows(LoadedFL) : \A j \in 3..NCols(LoadedFL) :
               LoadedFL.rows[i][j] # OVRFLW) => applied[1].df = LoadedFL)
    /\ Len(applied) >= 2 => (applied[2].raised = "none" /\ applied[2].df = applied[1].df)

\* the row-wise mean of the columns whose name starts with `cond`, each once
PrefixMean(df, cond, i) ==
    Mean([p \in 1..Len(SelectSeq([j \in 1..NCols(df) |-> j],
                                 LAMBDA j : StartsWith(df.cols[j], cond))) |->
            df.rows[i][SelectSeq([j \in 1..NCols(df) |-> j],
                                 LAMBDA j : StartsWith(df.cols[j], cond))[p]]])

AveragesPrefix(df, df_avg) ==
    /\ ~HasDuplicates(df_avg.cols)
    /\ \A cond \in ToSet(config.conditions.items) :
          /\ (cond \in ToSet(df_avg.cols)) <=> (\E j \in 1..NCols(df) : StartsWith(df.cols[j], cond))
          /\ cond \in ToSet(df_avg.cols) =>
                \A i \in 1..NRows(df) :
                    df_avg.rows[i][Positions(df_avg, cond)[1]] = PrefixMean(df, cond, i)

\* C7: the averaged table has a column for a condition exactly when some column
\* name starts with it, holding the mean of the matching columns, each counted once.
C7_AverageCountsEachColumnOnce ==
    Done("average") =>
        /\ AveragesPrefix(df_od600, avg.od600)
        /\ AveragesPrefix(df_sfGFP, avg.sfGFP)
        /\ AveragesPrefix(df_norm_sfGFP, avg.norm_sfGFP)

\* C8: normalization never finishes on two tables whose data regions differ in
\* column names or order.
C8_MismatchIsError ==
    Done("normalize") => DataRegion(df_sfGFP).cols = DataRegion(df_od600).cols

\* the fluorescence readings after cleaning, as calibration receives them
CleanedFL == handle_ovrflw(LoadedFL, config.replacement).df

\* C9: calibration leaves the table it is given untouched and returns a distinct
\* table in which the columns named A.. to H.. hold value * slope + intercept and
\* every other column is as in the input; the fluorescence table holds the raw
\* readings in every later stage.
C9_CalibrationKeepsInput ==
    (pc \in {"rename", "normalize", "average", "plot", "plotting", "completed"}
        \/ (pc = "failed" /\ Done("index-time"))) =>
        /\ df_sfGFP.rows = CleanedFL.rows
        /\ Done("calibrate") =>
              /\ NRows(df_MEFL) = NRows(df_sfGFP)
              /\ \A i \in 1..NRows(CleanedFL) : \A j \in 1..NCols(CleanedFL) :
                    df_MEFL.rows[i][j] =
                        IF Head(CleanedFL.cols[j]) \in {"A", "B", "C", "D", "E", "F", "G", "H"}
                        THEN Add(Mul(CleanedFL.rows[i][j], fit.slope), fit.intercept)
                        ELSE CleanedFL.rows[i][j]

C9_Witness ==
    /\ pc = "completed"
    /\ Done("calibrate")
    /\ IsNum(fit.slope)
    /\ fit.intercept # Number(0)
    /\ df_MEFL.rows # df_sfGFP.rows
    /\ \E i \in 1..NRows(df_MEFL) : \E j \in 3..NCols(df_MEFL) : IsNum(df_MEFL.rows[i][j])

\* the (signal, concentration) pairs the regression is given
CalibrationPairs ==
    LET cfg == config.calibration
        wells == cfg.fluorescein_calibration_wells
        back == IF cfg.background_well # PyFalse
                THEN ColumnMean(CleanedFL, cfg.background_well.name) ELSE Number(0)
    IN  {<<Sub(ColumnMean(CleanedFL, wells[w]), back),
           cfg.fluorescein_micromolar_concentration[w]>> : w \in 1..Len(wells)}

\* C10: with fewer than two distinct (signal, concentration) pairs, or signals that
\* are all alike, the calibrate stage does not finish: no fit, no MEFL.csv.
C10_DegenerateFitRefused ==
    (/\ HasCalibration
     /\ ToSet(config.calibration.fluorescein_calibration_wells) \subseteq ToSet(LoadedFL.cols)
     /\ config.calibration.background_well # PyFalse =>
            config.calibration.background_well.name \in ToSet(LoadedFL.cols)
     /\ \/ Cardinality(CalibrationPairs) < 2
        \/ Cardinality({p[1] : p \in CalibrationPairs}) < 2) =>
        /\ ~Done("calibrate")
        /\ ~Written("MEFL.csv")
        /\ fit = Unbound
        /\ pc # "completed"

\* the optical-density table as loaded, and its rows without a missing value
LoadedOD == load_xlsx(workbook, config.sheets.od600)
CompleteRows(df) ==
    SelectSeq(df.rows, LAMBDA row : \A j \in 1..Len(row) : row[j].k \notin {"None", "nan", "NA"})

\* line 48 has run: the stage finished, or the index assignment of line 49 raised
Indexed == Done("index-time") \/ (pc = "failed" /\ error.line = 49)

\* hour + minute/60 + second/3600 of the time of day a row holds
RowHours(df, row) ==
    LET time == row[CHOOSE j \in 1..NCols(df) : df.cols[j] = Name_Time]
    IN  Add(Add(Number(time.h), Num(time.m, 60)), Num(time.s, 3600))

IndexedByHours ==
    /\ df_od600.rows = CompleteRows(LoadedOD)
    /\ Len(df_od600.index) = NRows(df_od600)
    /\ \A r \in 1..NRows(df_od600) : df_od600.index[r] = RowHours(df_od600, df_od600.rows[r])
    /\ Done("index-time") => df_sfGFP.index = df_od600.index

\* C11 as stated: the indexed optical-density table has lost every row with a
\* missing value, is indexed by the elapsed hours of its rows, no longer has
\* the time-of-day column, and the fluorescence table carries the same index.
C11_TimeColumnDiscarded ==
    Indexed => (IndexedByHours /\ Name_Time \notin ToSet(df_od600.cols))

\* C11 amended: as stated, except that the time-of-day column stays in the table
\* (only the added "hours elapsed" column becomes the index, so the column count
\* is unchanged), and the fluorescence table carries the same index whenever the
\* index stage finishes; when a row was dropped the index assignment raises
\* ValueError and the run fails.
C11_IndexedKeepingTimeColumn ==
    Indexed =>
        /\ IndexedByHours
        /\ Name_Time \in ToSet(df_od600.cols)
        /\ NCols(df_od600) = NCols(LoadedOD)
        /\ (NRows(df_od600) # NRows(LoadedOD)) =>
               (pc = "failed" /\ error.type = "ValueError" /\ error.line = 49)

C11_Witness ==
    /\ Done("index-time")
    /\ NRows(df_od600) = MaxRows
    /\ df_od600.index[MaxRows] # Number(0)
    /\ df_sfGFP.index = df_od600.index
    /\ Name_Time \in ToSet(df_sfGFP.cols)

====
